---- MODULE Spec2Model ----
(***************************************************************************)
(* A model of the nuxt-starter application code: the two image provider    *)
(* adapters (getImage), the content collection schema, the registry of     *)
(* named HTTP errors and the component registration plugin.                *)
(*                                                                         *)
(* JavaScript strings that the code takes apart (URLs, identifiers,        *)
(* document text) are sequences of one-character strings; fixed literals   *)
(* that are only compared (format names, status messages, key names) are   *)
(* TLA+ strings.  JavaScript values are tagged records.                    *)
(***************************************************************************)
EXTENDS Integers, Sequences, FiniteSets, TLC

VARIABLES
    request,      \* the document or image request this run works on
    response,     \* what the last operation returned (op = "none" before any)
    heap,         \* the error objects allocated so far, by address
    exports,      \* the errors module's bindings: export name -> address
    errPc,        \* number of export statements of the errors module evaluated
    components,   \* vueApp's global component registry: name -> component
    pluginDone,   \* whether the component registration plugin has run
    nuxtConfig,   \* the framework configuration, once loaded
    handlers,     \* the request handlers in flight: what each has raised
    pluginRuns,   \* how many times the plugin's callback has been invoked
    calls         \* the invocations of the pure operations in flight

vars ==
    <<request, response, heap, exports, errPc, components, pluginDone,
      nuxtConfig, handlers, pluginRuns, calls>>

(***************************************************************************)
(* Bounds of the model.                                                    *)
(***************************************************************************)
MaxIdLen == 2
MaxBaseLen == 2
MaxTags == 2
NumHandlers == 2
MaxPluginRuns == 3
NumCalls == 2

(***************************************************************************)
(* JavaScript values.                                                      *)
(***************************************************************************)
Undefined == [t |-> "undefined"]
Null == [t |-> "null"]
Str(s) == [t |-> "string", s |-> s]
Num(n) == [t |-> "number", n |-> n]
Arr(a) == [t |-> "array", a |-> a]
Obj(o) == [t |-> "object", o |-> o]

\* ToBoolean, as `!baseURL` applies it.
Truthy(v) ==
    CASE v.t = "undefined" -> FALSE
      [] v.t = "null" -> FALSE
      [] v.t = "string" -> v.s /= <<>>
      [] v.t = "number" -> v.n /= 0
      [] OTHER -> TRUE

\* Property read of an object given as a function from its own keys:
\* a key the object does not have reads as undefined.
Get(o, k) == IF k \in DOMAIN o THEN o[k] ELSE Undefined

NoKeys == [k \in {} |-> Undefined]

\* All sequences over S of length at most n.
SeqsUpTo(S, n) == UNION {[1..k -> S] : k \in 0..n}

(***************************************************************************)
(* ufo's joinURL, as the adapters call it with one segment.                *)
(***************************************************************************)
\* isNonEmptyURL: url && url !== "/"
isNonEmptyURL(url) == url /= <<>> /\ url /= <<"/">>

\* segment.replace(/^\.?\//, "")
stripLeadingSlash(seg) ==
    IF Len(seg) >= 1 /\ seg[1] = "/" THEN SubSeq(seg, 2, Len(seg))
    ELSE IF Len(seg) >= 2 /\ seg[1] = "." /\ seg[2] = "/" THEN SubSeq(seg, 3, Len(seg))
    ELSE seg

\* input.endsWith("/") ? input : input + "/"
withTrailingSlash(input) ==
    IF input /= <<>> /\ input[Len(input)] = "/" THEN input ELSE input \o <<"/">>

\* A faulty variant of joinURL: plain concatenation, `base + segment`.
joinURLConcat(base, segment) == base \o segment

joinURL(base, segment) ==
    IF ~isNonEmptyURL(segment) THEN base
    ELSE IF base /= <<>> THEN withTrailingSlash(base) \o stripLeadingSlash(segment)
    ELSE segment

(***************************************************************************)
(* The image provider adapters.                                            *)
(***************************************************************************)
DEFAULT_BASE_URL ==
    <<"h", "t", "t", "p", "s", ":", "/", "/", "a", "v", "a", "t", "a", "r", "s",
      ".", "g", "i", "t", "h", "u", "b", "u", "s", "e", "r", "c", "o", "n", "t",
      "e", "n", "t", ".", "c", "o", "m", "/", "u", "/">>

\* A faulty variant of providerGetImage: the base lacks the 'u/' segment.
providerGetImageNoUserPath(src, options) ==
    [format |-> "webp",
     url |-> joinURL(SubSeq(DEFAULT_BASE_URL, 1, Len(DEFAULT_BASE_URL) - 2), src)]

\* A faulty variant of providerGetImage: the format follows the modifiers.
providerGetImageByModifiers(src, options) ==
    [format |-> IF "modifiers" \in DOMAIN options THEN "png" ELSE "webp",
     url |-> joinURL(DEFAULT_BASE_URL, src)]

\* defineProvider({ getImage(src, { modifiers: _modifiers }) { ... } }):
\* the injected-constant variant.  It reads only `modifiers` of its options.
providerGetImage(src, options) ==
    [format |-> "webp", url |-> joinURL(DEFAULT_BASE_URL, src)]

\* A faulty variant of getImageBaseURL: `baseURL ?? default`, so that only a
\* missing override falls back and the empty string is kept.
getImageBaseURLNullish(options) ==
    IF Get(options, "baseURL").t = "string" THEN Get(options, "baseURL").s
    ELSE DEFAULT_BASE_URL

\* A faulty variant of getImageBaseURL: the override is never read.
getImageBaseURLAlwaysDefault(options) == DEFAULT_BASE_URL

\* baseURL after `let { baseURL } = options; if (!baseURL) baseURL = '...'`.
getImageBaseURL(options) ==
    IF ~Truthy(Get(options, "baseURL")) THEN DEFAULT_BASE_URL
    ELSE Get(options, "baseURL").s

\* A faulty variant of getImage: the modifiers leak into the url as a query.
getImageWithQuery(src, options) ==
    [format |-> "webp",
     url |-> joinURL(getImageBaseURL(options), src)
                \o (IF "modifiers" \in DOMAIN options THEN <<"?", "w">> ELSE <<>>)]

\* export const getImage: ProviderGetImage = (src, options) => ...:
\* the caller-option variant.
getImage(src, options) ==
    [format |-> "webp", url |-> joinURL(getImageBaseURL(options), src)]

(***************************************************************************)
(* The content collection schema: z.object({ description, image, tags,     *)
(* title }) of zod, parsed with the default "strip" policy for keys the    *)
(* shape does not declare.  A document is a function from its own keys to  *)
(* JavaScript values.                                                      *)
(***************************************************************************)
\* zod's invalid_type issue; a path is the key followed by array indices.
Issue(path, expected, received) ==
    [code |-> "invalid_type", path |-> path, expected |-> expected, received |-> received]

\* z.string()
zString(v, path) ==
    IF v.t = "string" THEN <<>> ELSE <<Issue(path, "string", v.t)>>

\* z.string().optional(): undefined passes, anything else goes to z.string().
zOptionalString(v, path) ==
    IF v.t = "undefined" THEN <<>> ELSE zString(v, path)

\* The elements of z.array(z.string()), each parsed at path + [index].
RECURSIVE zElements(_, _, _)
zElements(a, i, path) ==
    IF i > Len(a) THEN <<>>
    ELSE zString(a[i], path \o <<i - 1>>) \o zElements(a, i + 1, path)

\* A faulty variant of zOptionalStringArray: z.array(z.any()).optional().
zOptionalAnyArray(v, path) ==
    IF v.t = "undefined" THEN <<>>
    ELSE IF v.t /= "array" THEN <<Issue(path, "array", v.t)>>
    ELSE <<>>

\* z.array(z.string()).optional()
zOptionalStringArray(v, path) ==
    IF v.t = "undefined" THEN <<>>
    ELSE IF v.t /= "array" THEN <<Issue(path, "array", v.t)>>
    ELSE zElements(v.a, 1, path)

\* The keys of the shape, in declaration order.
schemaKeys == <<"description", "image", "tags", "title">>

\* A faulty variant of schemaField: title is z.string().optional().
schemaFieldTitleOptional(key, v) ==
    CASE key = "description" -> zOptionalString(v, <<key>>)
      [] key = "image" -> zOptionalString(v, <<key>>)
      [] key = "tags" -> zOptionalStringArray(v, <<key>>)
      [] key = "title" -> zOptionalString(v, <<key>>)

\* A faulty variant of schemaField: title is z.string().min(1).
schemaFieldTitleNonEmpty(key, v) ==
    CASE key = "description" -> zOptionalString(v, <<key>>)
      [] key = "image" -> zOptionalString(v, <<key>>)
      [] key = "tags" -> zOptionalStringArray(v, <<key>>)
      [] key = "title" -> IF v = Str(<<>>)
                          THEN <<[code |-> "too_small", path |-> <<key>>,
                                  expected |-> "string", received |-> "string"]>>
                          ELSE zString(v, <<key>>)

\* The parser the shape gives each key.
schemaField(key, v) ==
    CASE key = "description" -> zOptionalString(v, <<key>>)
      [] key = "image" -> zOptionalString(v, <<key>>)
      [] key = "tags" -> zOptionalStringArray(v, <<key>>)
      [] key = "title" -> zString(v, <<key>>)

\* Every key of the shape is parsed; the issues of all of them are collected.
RECURSIVE schemaIssues(_, _)
schemaIssues(doc, i) ==
    IF i > Len(schemaKeys) THEN <<>>
    ELSE schemaField(schemaKeys[i], Get(doc, schemaKeys[i])) \o schemaIssues(doc, i + 1)

\* A faulty variant of schemaData: z.object({...}).passthrough(), which
\* copies the keys the shape does not declare.
schemaDataPassthrough(doc) == doc

\* A faulty variant of schemaData: tags are transformed to their count.
schemaDataTagsCounted(doc) ==
    [k \in {key \in {schemaKeys[i] : i \in 1..Len(schemaKeys)} :
                key \in DOMAIN doc \/ Get(doc, key) /= Undefined} |->
        IF k = "tags" THEN Num(Len(doc[k].a)) ELSE doc[k]]

\* A faulty variant of schemaData: absent fields default to the empty string.
schemaDataDefaulted(doc) ==
    [k \in {schemaKeys[i] : i \in 1..Len(schemaKeys)} |->
        IF k \in DOMAIN doc THEN doc[k] ELSE Str(<<>>)]

\* The object zod builds on success: a key of the shape is set when the input
\* has it or its parsed value is defined; no other key is copied.
schemaData(doc) ==
    [k \in {key \in {schemaKeys[i] : i \in 1..Len(schemaKeys)} :
                key \in DOMAIN doc \/ Get(doc, key) /= Undefined} |-> doc[k]]

\* collections.content.schema applied to a document (safeParse).
schema(doc) ==
    IF schemaIssues(doc, 1) = <<>>
    THEN [success |-> TRUE, data |-> schemaData(doc)]
    ELSE [success |-> FALSE, issues |-> schemaIssues(doc, 1)]

(***************************************************************************)
(* The registry of named HTTP errors: seven module-level constants, each   *)
(* the H3Error that h3's createError builds from { statusCode,             *)
(* statusMessage }.                                                        *)
(***************************************************************************)
\* sanitizeStatusCode(statusCode, defaultStatusCode) of h3.
sanitizeStatusCode(statusCode, defaultStatusCode) ==
    IF statusCode = 0 THEN defaultStatusCode
    ELSE IF statusCode < 100 \/ statusCode > 999 THEN defaultStatusCode
    ELSE statusCode

\* createError(input): a new H3Error (statusCode 500 unless the input gives a
\* valid one) whose message and statusMessage are the input's statusMessage.
createError(input) ==
    [statusCode |-> IF input.statusCode /= 0
                    THEN sanitizeStatusCode(input.statusCode, 500)
                    ELSE 500,
     statusMessage |-> input.statusMessage,
     message |-> input.statusMessage,
     fatal |-> FALSE,
     unhandled |-> FALSE]

ErrNotFound == createError([statusCode |-> 404, statusMessage |-> "Not found"])

ErrForbidden == createError([statusCode |-> 403, statusMessage |-> "Forbidden"])

\* A faulty variant of ErrUnauthorized: the status code of ErrForbidden.
ErrUnauthorizedAsForbidden ==
    createError([statusCode |-> 403, statusMessage |-> "Unauthorized"])

ErrUnauthorized == createError([statusCode |-> 401, statusMessage |-> "Unauthorized"])

ErrBadRequest == createError([statusCode |-> 400, statusMessage |-> "Bad request"])

ErrUnsupportedMethod ==
    createError([statusCode |-> 405, statusMessage |-> "Unsupported method"])

ErrInternalServer ==
    createError([statusCode |-> 500, statusMessage |-> "Internal server error"])

\* A faulty variant of ErrNoParamId: the message of ErrBadRequest.
ErrNoParamIdAsBadRequest ==
    createError([statusCode |-> 400, statusMessage |-> "Bad request"])

\* A faulty variant of ErrNoParamId: the status code of another error.
ErrNoParamIdAsNotFound ==
    createError([statusCode |-> 404, statusMessage |-> "No param id"])

ErrNoParamId == createError([statusCode |-> 400, statusMessage |-> "No param id"])

\* The export statements of the module, in source order.
exportOrder ==
    <<"ErrNotFound", "ErrForbidden", "ErrUnauthorized", "ErrBadRequest",
      "ErrUnsupportedMethod", "ErrInternalServer", "ErrNoParamId">>

\* The value the initializer of each export statement constructs.
exportInit(name) ==
    CASE name = "ErrNotFound" -> ErrNotFound
      [] name = "ErrForbidden" -> ErrForbidden
      [] name = "ErrUnauthorized" -> ErrUnauthorized
      [] name = "ErrBadRequest" -> ErrBadRequest
      [] name = "ErrUnsupportedMethod" -> ErrUnsupportedMethod
      [] name = "ErrInternalServer" -> ErrInternalServer
      [] name = "ErrNoParamId" -> ErrNoParamId

\* Binding a name of a keyed object: obj[name] = value.
Bind(obj, name, value) ==
    [k \in DOMAIN obj \cup {name} |-> IF k = name THEN value ELSE obj[k]]

\* A faulty variant of EvalErrorsModule: the last statement derives
\* ErrNoParamId from ErrBadRequest by Object.assign, writing into its object.
EvalErrorsModuleAliased ==
    /\ errPc < Len(exportOrder)
    /\ IF exportOrder[errPc + 1] = "ErrNoParamId"
       THEN /\ heap' = [heap EXCEPT ![exports["ErrBadRequest"]] = ErrNoParamId]
            /\ exports' = Bind(exports, "ErrNoParamId", exports["ErrBadRequest"])
       ELSE /\ heap' = Append(heap, exportInit(exportOrder[errPc + 1]))
            /\ exports' = Bind(exports, exportOrder[errPc + 1], Len(heap) + 1)
    /\ errPc' = errPc + 1
    /\ UNCHANGED <<request, response, components, pluginDone, nuxtConfig, handlers, pluginRuns, calls>>

\* A faulty variant of EvalErrorsModule: the module is evaluated a second
\* time after it has completed, constructing every error again.
EvalErrorsModuleReevaluated ==
    /\ Len(heap) < 2 * Len(exportOrder)
    /\ heap' = Append(heap, exportInit(exportOrder[(errPc % Len(exportOrder)) + 1]))
    /\ exports' = Bind(exports, exportOrder[(errPc % Len(exportOrder)) + 1], Len(heap) + 1)
    /\ errPc' = (errPc % Len(exportOrder)) + 1
    /\ UNCHANGED <<request, response, components, pluginDone, nuxtConfig, handlers, pluginRuns, calls>>

\* Evaluation of the errors module, one export statement per step: the
\* statement allocates a new error object and binds the export name to it.
EvalErrorsModule ==
    /\ errPc < Len(exportOrder)
    /\ heap' = Append(heap, exportInit(exportOrder[errPc + 1]))
    /\ exports' = Bind(exports, exportOrder[errPc + 1], Len(heap) + 1)
    /\ errPc' = errPc + 1
    /\ UNCHANGED <<request, response, components, pluginDone, nuxtConfig, handlers, pluginRuns, calls>>

\* A request handler raises a named error: `throw ErrX`.  The value thrown is
\* the module's binding, which a handler can import only once the module has
\* been evaluated; it reaches the HTTP boundary as thrown, and the boundary
\* reads its statusCode and statusMessage.
Raise(name) ==
    /\ errPc = Len(exportOrder)
    /\ response' = [op |-> "raise",
                    name |-> name,
                    thrown |-> exports[name],
                    statusCode |-> heap[exports[name]].statusCode,
                    statusMessage |-> heap[exports[name]].statusMessage]
    /\ UNCHANGED <<request, heap, exports, errPc, components, pluginDone, nuxtConfig, handlers, pluginRuns, calls>>

(***************************************************************************)
(* The component registration plugin.                                      *)
(***************************************************************************)
\* The components imported from '#components'.
NuxtLink == "#components/NuxtLink"

NuxtImg == "#components/NuxtImg"

\* A faulty variant of registerComponents: NuxtImg is registered only while
\* nothing holds its name, and is unregistered when something does.
registerComponentsToggle(registry) ==
    IF "NuxtImg" \in DOMAIN registry
    THEN [k \in (DOMAIN registry \cup {"NuxtLink"}) \ {"NuxtImg"} |->
            IF k = "NuxtLink" THEN NuxtLink ELSE registry[k]]
    ELSE Bind(Bind(registry, "NuxtLink", NuxtLink), "NuxtImg", NuxtImg)

\* The plugin's callback applied to a registry: two calls of
\* vueApp.component(name, component), each of which sets
\* context.components[name] = component.
registerComponents(registry) ==
    Bind(Bind(registry, "NuxtLink", NuxtLink), "NuxtImg", NuxtImg)

\* A faulty variant of RunPlugin: both components go under 'NuxtLink'.
RunPluginSameName ==
    /\ ~pluginDone
    /\ components' = Bind(Bind(components, "NuxtLink", NuxtLink), "NuxtLink", NuxtImg)
    /\ pluginDone' = TRUE
    /\ pluginRuns' = 1
    /\ UNCHANGED <<request, response, heap, exports, errPc, nuxtConfig, handlers, calls>>

\* The plugin runs on the application.
RunPlugin ==
    /\ ~pluginDone
    /\ components' = registerComponents(components)
    /\ pluginDone' = TRUE
    /\ pluginRuns' = 1
    /\ UNCHANGED <<request, response, heap, exports, errPc, nuxtConfig, handlers, calls>>

\* The plugin's callback is invoked again on the same application.
RunPluginAgain ==
    /\ pluginDone
    /\ pluginRuns < MaxPluginRuns
    /\ components' = registerComponents(components)
    /\ pluginRuns' = pluginRuns + 1
    /\ UNCHANGED <<request, response, heap, exports, errPc, pluginDone,
                   nuxtConfig, handlers, calls>>

(***************************************************************************)
(* Request handlers that raise named errors, several in flight at once.    *)
(* A handler throws the module's binding; the thrown object then reaches   *)
(* the HTTP boundary, which reads its statusCode and statusMessage; the    *)
(* request ends and the handler takes the next one.                        *)
(***************************************************************************)
Handlers == 1..NumHandlers

Idle == [pc |-> "idle"]

Throw(h, name) ==
    /\ errPc = Len(exportOrder)
    /\ handlers[h].pc = "idle"
    /\ handlers' = [handlers EXCEPT ![h] =
                        [pc |-> "thrown", name |-> name, thrown |-> exports[name]]]
    /\ UNCHANGED <<request, response, heap, exports, errPc, components,
                   pluginDone, nuxtConfig, pluginRuns, calls>>

Deliver(h) ==
    /\ handlers[h].pc = "thrown"
    /\ handlers' = [handlers EXCEPT ![h] =
                        [pc |-> "delivered",
                         name |-> handlers[h].name,
                         thrown |-> handlers[h].thrown,
                         statusCode |-> heap[handlers[h].thrown].statusCode,
                         statusMessage |-> heap[handlers[h].thrown].statusMessage]]
    /\ UNCHANGED <<request, response, heap, exports, errPc, components,
                   pluginDone, nuxtConfig, pluginRuns, calls>>

Finish(h) ==
    /\ handlers[h].pc = "delivered"
    /\ handlers' = [handlers EXCEPT ![h] = Idle]
    /\ UNCHANGED <<request, response, heap, exports, errPc, components,
                   pluginDone, nuxtConfig, pluginRuns, calls>>

(***************************************************************************)
(* The framework configuration (nuxt.config.ts, as the readme gives it):   *)
(* the settings of the i18n, content and image modules that are read here. *)
(***************************************************************************)
\* A faulty variant of NuxtConfig: the content module lists a locale that
\* the i18n module does not configure.
NuxtConfigExtraContentLocale ==
    [content |-> [locales |-> <<"ru", "en", "de">>],
     image |-> [providers |-> NoKeys],
     i18n |-> [defaultLocale |-> "ru",
               langDir |-> "languages",
               locales |-> <<[code |-> "en", file |-> "en.yml", language |-> "en-US"],
                             [code |-> "ru", file |-> "ru.yml", language |-> "ru-RU"]>>]]

NuxtConfig ==
    [content |-> [locales |-> <<"ru", "en">>],
     image |-> [providers |-> NoKeys],
     i18n |-> [defaultLocale |-> "ru",
               langDir |-> "languages",
               locales |-> <<[code |-> "en", file |-> "en.yml", language |-> "en-US"],
                             [code |-> "ru", file |-> "ru.yml", language |-> "ru-RU"]>>]]

\* defineNuxtConfig is evaluated, once.
LoadConfig ==
    /\ ~nuxtConfig.loaded
    /\ nuxtConfig' = [loaded |-> TRUE, config |-> NuxtConfig]
    /\ UNCHANGED <<request, response, heap, exports, errPc, components,
                   pluginDone, handlers, pluginRuns, calls>>

(***************************************************************************)
(* The inputs the operations are applied to.                               *)
(***************************************************************************)
octocat == <<"o", "c", "t", "o", "c", "a", "t">>

cdnBase ==
    <<"h", "t", "t", "p", "s", ":", "/", "/", "c", "d", "n", ".", "e", "x", "a",
      "m", "p", "l", "e", ".", "c", "o", "m", "/", "i", "m", "g", "s", "/">>

Hello == <<"H", "e", "l", "l", "o">>

\* Image identifiers: every string over { "/", ".", "a" } up to MaxIdLen, and
\* the identifier of the documented scenario.
ImageIds == SeqsUpTo({"/", ".", "a"}, MaxIdLen) \cup {octocat}

\* Base URL overrides: every string over { "/", "b" } up to MaxBaseLen (the
\* empty string included) and the override of the documented scenario.
BaseURLs == SeqsUpTo({"/", "b"}, MaxBaseLen) \cup {cdnBase}

\* Values of baseURL that ToBoolean takes for false and that are not strings.
FalsyNonText == {Undefined, Null, Num(0)}

\* Options records: baseURL absent, a string or a falsy value; modifiers absent
\* or an object; `quality`, an option neither adapter reads, absent or a number.
ImageOptions ==
    {NoKeys, [modifiers |-> Obj("{}")], [modifiers |-> Obj("{width:100}")],
     [quality |-> Num(80)]}
    \cup {[baseURL |-> Str(b)] : b \in BaseURLs}
    \cup {[baseURL |-> Str(b), modifiers |-> Obj("{width:100}")] : b \in BaseURLs}
    \cup {[baseURL |-> Str(b), quality |-> Num(80)] : b \in BaseURLs}
    \cup {[baseURL |-> v] : v \in FalsyNonText}

\* A marker for "the document does not have this key".
Absent == [t |-> "absent"]

DescriptionChoices == {Absent, Str(<<>>), Str(<<"x">>), Num(1)}

ImageChoices == {Absent, Str(<<"x">>), Num(1)}

TagsChoices ==
    {Absent, Str(<<"x">>)} \cup {Arr(a) : a \in SeqsUpTo({Str(<<"x">>), Num(1)}, MaxTags)}

TitleChoices == {Absent, Str(<<>>), Str(Hello), Num(1), Null}

SlugChoices == {Absent, Str(<<"x">>)}

\* The document with the keys whose choice is not Absent.
DocOf(choice) == [k \in {key \in DOMAIN choice : choice[key] /= Absent} |-> choice[k]]

Documents ==
    {DocOf([description |-> d, image |-> i, tags |-> g, title |-> t, slug |-> s]) :
        d \in DescriptionChoices, i \in ImageChoices, g \in TagsChoices,
        t \in TitleChoices, s \in SlugChoices}

ErrNames == {exportOrder[i] : i \in 1..Len(exportOrder)}

Requests ==
    {[kind |-> "validate", doc |-> d] : d \in Documents}
    \cup {[kind |-> "image", src |-> id, options |-> o] : id \in ImageIds, o \in ImageOptions}

\* What the application's component registry may hold before the plugin runs.
InitialRegistries ==
    {NoKeys, [NuxtLink |-> "other/Link"], [ContentRenderer |-> "other/Renderer"]}

(***************************************************************************)
(* Invocations of the schema and of the image adapters, several in flight  *)
(* at once.  getImage is taken in two steps, the assignment of its local   *)
(* baseURL and the return of the joined url, so that another invocation    *)
(* may run between them; the schema and the provider's getImage are one    *)
(* expression each.                                                        *)
(***************************************************************************)
Calls == 1..NumCalls

NoCall == [pc |-> "idle"]

CallInputs ==
    {[kind |-> "validate", doc |-> d] :
        d \in {[title |-> Str(Hello)],
               [title |-> Str(Hello), slug |-> Str(<<"x">>)],
               [description |-> Str(<<"x">>)]}}
    \cup {[kind |-> k, src |-> octocat, options |-> o] :
            k \in {"getImage", "providerGetImage"},
            o \in {NoKeys, [baseURL |-> Str(cdnBase)], [baseURL |-> Str(<<>>)]}}

\* An invocation arrives with its arguments.
Call(c, input) ==
    /\ calls[c].pc = "idle"
    /\ calls' = [calls EXCEPT ![c] = [pc |-> "called", input |-> input]]
    /\ UNCHANGED <<request, response, heap, exports, errPc, components,
                   pluginDone, nuxtConfig, handlers, pluginRuns>>

\* schema.safeParse(doc)
ValidateCall(c) ==
    /\ calls[c].pc = "called"
    /\ calls[c].input.kind = "validate"
    /\ calls' = [calls EXCEPT ![c] =
                    [pc |-> "done", input |-> calls[c].input,
                     result |-> schema(calls[c].input.doc)]]
    /\ UNCHANGED <<request, response, heap, exports, errPc, components,
                   pluginDone, nuxtConfig, handlers, pluginRuns>>

\* The provider's getImage(src, options).
ProviderCall(c) ==
    /\ calls[c].pc = "called"
    /\ calls[c].input.kind = "providerGetImage"
    /\ calls' = [calls EXCEPT ![c] =
                    [pc |-> "done", input |-> calls[c].input,
                     result |-> providerGetImage(calls[c].input.src,
                                                 calls[c].input.options)]]
    /\ UNCHANGED <<request, response, heap, exports, errPc, components,
                   pluginDone, nuxtConfig, handlers, pluginRuns>>

\* A faulty variant of BeginGetImage: baseURL is a variable of the module,
\* not of the invocation, so the assignment reaches every invocation that is
\* between its two steps.
BeginGetImageShared(c) ==
    /\ calls[c].pc = "called"
    /\ calls[c].input.kind = "getImage"
    /\ calls' = [d \in Calls |->
                    IF d = c
                    THEN [pc |-> "based", input |-> calls[c].input,
                          baseURL |-> getImageBaseURL(calls[c].input.options)]
                    ELSE IF calls[d].pc = "based"
                    THEN [calls[d] EXCEPT
                            !.baseURL = getImageBaseURL(calls[c].input.options)]
                    ELSE calls[d]]
    /\ UNCHANGED <<request, response, heap, exports, errPc, components,
                   pluginDone, nuxtConfig, handlers, pluginRuns>>

\* getImage, first step: `let { baseURL } = options` and the default when it
\* is falsy.  baseURL is a local of the invocation.
BeginGetImage(c) ==
    /\ calls[c].pc = "called"
    /\ calls[c].input.kind = "getImage"
    /\ calls' = [calls EXCEPT ![c] =
                    [pc |-> "based", input |-> calls[c].input,
                     baseURL |-> getImageBaseURL(calls[c].input.options)]]
    /\ UNCHANGED <<request, response, heap, exports, errPc, components,
                   pluginDone, nuxtConfig, handlers, pluginRuns>>

\* getImage, second step: return { format: 'webp', url: joinURL(baseURL, src) }.
ReturnGetImage(c) ==
    /\ calls[c].pc = "based"
    /\ calls' = [calls EXCEPT ![c] =
                    [pc |-> "done", input |-> calls[c].input,
                     result |-> [format |-> "webp",
                                 url |-> joinURL(calls[c].baseURL, calls[c].input.src)]]]
    /\ UNCHANGED <<request, response, heap, exports, errPc, components,
                   pluginDone, nuxtConfig, handlers, pluginRuns>>

(***************************************************************************)
(* The state machine.                                                      *)
(***************************************************************************)
Init ==
    /\ request \in Requests
    /\ response = [op |-> "none"]
    /\ heap = <<>>
    /\ exports = NoKeys
    /\ errPc = 0
    /\ components \in InitialRegistries
    /\ pluginDone = FALSE
    /\ nuxtConfig = [loaded |-> FALSE]
    /\ handlers = [h \in Handlers |-> Idle]
    /\ pluginRuns = 0
    /\ calls = [c \in Calls |-> NoCall]

\* The content loader validates a document against the collection's schema.
Validate ==
    /\ request.kind = "validate"
    /\ response' = [op |-> "validate", result |-> schema(request.doc)]
    /\ UNCHANGED <<request, heap, exports, errPc, components, pluginDone, nuxtConfig, handlers, pluginRuns, calls>>

\* The record validation returned is validated again.
Revalidate ==
    /\ response.op = "validate"
    /\ response.result.success
    /\ response' = [op |-> "revalidate",
                    first |-> response.result,
                    result |-> schema(response.result.data)]
    /\ UNCHANGED <<request, heap, exports, errPc, components, pluginDone,
                   nuxtConfig, handlers, pluginRuns, calls>>

\* The caller-option adapter is called.
GetImage ==
    /\ request.kind = "image"
    /\ response' = [op |-> "getImage", result |-> getImage(request.src, request.options)]
    /\ UNCHANGED <<request, heap, exports, errPc, components, pluginDone, nuxtConfig, handlers, pluginRuns, calls>>

\* The injected-constant provider's getImage is called.
ProviderGetImage ==
    /\ request.kind = "image"
    /\ response' = [op |-> "providerGetImage",
                    result |-> providerGetImage(request.src, request.options)]
    /\ UNCHANGED <<request, heap, exports, errPc, components, pluginDone, nuxtConfig, handlers, pluginRuns, calls>>

Next ==
    \/ Validate
    \/ Revalidate
    \/ GetImage
    \/ ProviderGetImage
    \/ EvalErrorsModule
    \/ \E name \in ErrNames : Raise(name)
    \/ RunPlugin

Spec == Init /\ [][Next]_vars

(***************************************************************************)
(* The application as a process: configuration, module evaluation, the     *)
(* plugin, and handlers in flight, on the documented requests.             *)
(***************************************************************************)
AppRequests ==
    {[kind |-> "validate", doc |-> [title |-> Str(Hello)]],
     [kind |-> "image", src |-> octocat, options |-> NoKeys]}

InitApp == Init /\ request \in AppRequests

NextApp ==
    \/ LoadConfig
    \/ EvalErrorsModule
    \/ RunPlugin
    \/ RunPluginAgain
    \/ Validate
    \/ GetImage
    \/ ProviderGetImage
    \/ \E h \in Handlers, name \in ErrNames : Throw(h, name)
    \/ \E h \in Handlers : Deliver(h)
    \/ \E h \in Handlers : Finish(h)

SpecApp == InitApp /\ [][NextApp]_vars

(***************************************************************************)
(* The pure operations under concurrent invocation, next to the plugin,    *)
(* which writes the state the application shares.                          *)
(***************************************************************************)
InitCalls == Init /\ request = [kind |-> "validate", doc |-> [title |-> Str(Hello)]]

NextCalls ==
    \/ \E c \in Calls, input \in CallInputs : Call(c, input)
    \/ \E c \in Calls : ValidateCall(c)
    \/ \E c \in Calls : ProviderCall(c)
    \/ \E c \in Calls : BeginGetImage(c)
    \/ \E c \in Calls : ReturnGetImage(c)
    \/ RunPlugin

SpecCalls == InitCalls /\ [][NextCalls]_vars

(***************************************************************************)
(* Properties of the image adapters.                                       *)
(***************************************************************************)
\* The url the documented scenarios give for the identifier 'octocat'.
octocatDefaultUrl ==
    <<"h", "t", "t", "p", "s", ":", "/", "/", "a", "v", "a", "t", "a", "r", "s",
      ".", "g", "i", "t", "h", "u", "b", "u", "s", "e", "r", "c", "o", "n", "t",
      "e", "n", "t", ".", "c", "o", "m", "/", "u", "/", "o", "c", "t", "o", "c",
      "a", "t">>

octocatCdnUrl ==
    <<"h", "t", "t", "p", "s", ":", "/", "/", "c", "d", "n", ".", "e", "x", "a",
      "m", "p", "l", "e", ".", "c", "o", "m", "/", "i", "m", "g", "s", "/", "o",
      "c", "t", "o", "c", "a", "t">>

\* The request's options carry a baseURL that is text.
OverrideSupplied ==
    /\ request.kind = "image"
    /\ "baseURL" \in DOMAIN request.options
    /\ request.options.baseURL.t = "string"

\* The request's options carry a baseURL that is not the empty string.
OverrideNonEmpty == OverrideSupplied /\ request.options.baseURL.s /= <<>>

\* C1 as stated: for every identifier and every supplied base-URL override,
\* getImage's url is the path-join of the override and the identifier; with no
\* override it is the path-join of the default base and the identifier.
C1_UrlJoinsEverySuppliedOverride ==
    response.op = "getImage" =>
        IF OverrideSupplied
        THEN response.result.url = joinURL(request.options.baseURL.s, request.src)
        ELSE response.result.url = joinURL(DEFAULT_BASE_URL, request.src)

\* C1 as amended: for every identifier and every supplied non-empty override,
\* getImage's url is the path-join of the override and the identifier; with no
\* override, or an empty one, it is the path-join of the default base
\* 'https://avatars.githubusercontent.com/u/' and the identifier.  'octocat'
\* gives 'https://avatars.githubusercontent.com/u/octocat', and with the
\* override 'https://cdn.example.com/imgs/' it gives
\* 'https://cdn.example.com/imgs/octocat'.
C1_UrlJoinsNonEmptyOverride ==
    response.op = "getImage" =>
        /\ IF OverrideNonEmpty
           THEN response.result.url = joinURL(request.options.baseURL.s, request.src)
           ELSE response.result.url = joinURL(DEFAULT_BASE_URL, request.src)
        /\ (~OverrideSupplied /\ request.src = octocat)
              => response.result.url = octocatDefaultUrl
        /\ (OverrideSupplied /\ request.options.baseURL.s = cdnBase /\ request.src = octocat)
              => response.result.url = octocatCdnUrl

\* getImage has answered the documented override scenario.
C1_Witness ==
    /\ response.op = "getImage"
    /\ OverrideNonEmpty
    /\ request.options.baseURL.s = cdnBase
    /\ request.src = octocat
    /\ response.result.url = octocatCdnUrl

\* C2: the injected-constant provider variant, like the caller-option variant,
\* returns the path-join of a supplied override and the identifier whenever an
\* override is supplied, and uses the default base only when none is.
C2_ProviderHonorsOverride ==
    response.op = "providerGetImage" =>
        IF OverrideNonEmpty
        THEN response.result.url = joinURL(request.options.baseURL.s, request.src)
        ELSE response.result.url = joinURL(DEFAULT_BASE_URL, request.src)

\* C3: both adapter variants return format 'webp' for every identifier (the
\* empty string included) and every options record, with or without override.
C3_FormatIsWebp ==
    response.op \in {"getImage", "providerGetImage"} => response.result.format = "webp"

\* The provider variant has answered for the empty identifier, given options
\* that carry both an override and modifiers.
C3_Witness ==
    /\ response.op = "providerGetImage"
    /\ request.src = <<>>
    /\ OverrideNonEmpty
    /\ "modifiers" \in DOMAIN request.options
    /\ response.result.format = "webp"

\* The two options records carry the same base-URL override (none, or equal).
SameOverride(o1, o2) == Get(o1, "baseURL") = Get(o2, "baseURL")

\* C11: the adapter's result depends only on the identifier and the base-URL
\* override: an invocation with the same identifier and the same override but
\* other modifiers, or another unrecognized option, returns the same url and
\* format.
C11_OnlyIdAndOverrideMatter ==
    /\ response.op = "getImage" =>
          \A o \in ImageOptions :
              SameOverride(o, request.options)
                  => getImage(request.src, o) = response.result
    /\ response.op = "providerGetImage" =>
          \A o \in ImageOptions :
              SameOverride(o, request.options)
                  => providerGetImage(request.src, o) = response.result

\* getImage has answered a request that carries an override and an option it
\* does not read, while other requests carry the same override with modifiers.
C11_Witness ==
    /\ response.op = "getImage"
    /\ request.options = [baseURL |-> Str(cdnBase), quality |-> Num(80)]
    /\ \E o \in ImageOptions :
          /\ o /= request.options
          /\ "modifiers" \in DOMAIN o
          /\ SameOverride(o, request.options)

\* C16: the image adapter never fails and is deterministic: for every
\* identifier, the empty string included, it returns a url, and an invocation
\* with an equal identifier and an equal override returns an equal result;
\* for the empty identifier the url is the base itself, the override when a
\* (non-empty) one is supplied and the default base otherwise.
C16_EmptyIdentifierYieldsBase ==
    response.op \in {"getImage", "providerGetImage"} =>
        /\ "url" \in DOMAIN response.result
        /\ response.result.url \in Seq({response.result.url[i] :
                                          i \in DOMAIN response.result.url})
        /\ \A o \in ImageOptions :
              o = request.options =>
                  response.result = IF response.op = "getImage"
                                    THEN getImage(request.src, o)
                                    ELSE providerGetImage(request.src, o)
        /\ request.src = <<>> =>
              response.result.url = IF OverrideNonEmpty
                                    THEN request.options.baseURL.s
                                    ELSE DEFAULT_BASE_URL

\* The default base as the documentation spells it.
documentedDefaultBase == SubSeq(octocatDefaultUrl, 1, Len(octocatDefaultUrl) - Len(octocat))

StartsWith(url, prefix) ==
    Len(url) >= Len(prefix) /\ SubSeq(url, 1, Len(prefix)) = prefix

\* The request's options have no baseURL of their own.
NoOverride == request.kind = "image" /\ "baseURL" \notin DOMAIN request.options

\* C17: when no base-URL override is supplied, the two adapter variants are
\* equivalent: for every identifier the provider variant and the
\* caller-option variant return the same url and the same format, both built
\* from the default base 'https://avatars.githubusercontent.com/u/'.
C17_VariantsAgreeWithoutOverride ==
    (response.op \in {"getImage", "providerGetImage"} /\ NoOverride) =>
        /\ response.result = getImage(request.src, request.options)
        /\ response.result = providerGetImage(request.src, request.options)
        /\ response.result.format = "webp"
        /\ StartsWith(response.result.url, documentedDefaultBase)
        /\ request.src = octocat => response.result.url = octocatDefaultUrl

\* The provider variant has answered the documented scenario without an
\* override, with modifiers among its options.
C17_Witness ==
    /\ response.op = "providerGetImage"
    /\ NoOverride
    /\ "modifiers" \in DOMAIN request.options
    /\ request.src = octocat
    /\ response.result = getImage(octocat, request.options)
    /\ response.result.url = octocatDefaultUrl

\* The request supplies a baseURL that is the empty string or another falsy
\* value.
OverrideFalsy ==
    /\ request.kind = "image"
    /\ "baseURL" \in DOMAIN request.options
    /\ request.options.baseURL \in {Str(<<>>), Undefined, Null, Num(0)}

\* C18: in the caller-option adapter an override that is supplied but empty
\* (the empty string, or any falsy value) is treated as not supplied: the url
\* is built from the default base, not from the empty override.
C18_FalsyOverrideIsDefault ==
    (response.op = "getImage" /\ OverrideFalsy) =>
        /\ response.result.url = joinURL(documentedDefaultBase, request.src)
        /\ response.result = getImage(request.src, NoKeys)
        /\ StartsWith(response.result.url, documentedDefaultBase)
        /\ response.result.url /= joinURL(<<>>, request.src)

\* getImage has answered the documented identifier with the empty string as
\* override.
C18_Witness ==
    /\ response.op = "getImage"
    /\ request.options = [baseURL |-> Str(<<>>)]
    /\ request.src = octocat
    /\ response.result.url = octocatDefaultUrl

\* A string without one trailing '/', and a string without one leading '/'.
DropTrailingSlash(b) ==
    IF b /= <<>> /\ b[Len(b)] = "/" THEN SubSeq(b, 1, Len(b) - 1) ELSE b

DropLeadingSlash(i) ==
    IF i /= <<>> /\ i[1] = "/" THEN SubSeq(i, 2, Len(i)) ELSE i

\* A relative identifier proper: not empty, starting neither with '/' nor
\* with './'.
PlainId(i) ==
    /\ i /= <<>>
    /\ i[1] /= "/"
    /\ ~(Len(i) >= 2 /\ i[1] = "." /\ i[2] = "/")

\* The non-empty segments of a string that '/' separates.
Segments(str) ==
    {SubSeq(str, i, j) : <<i, j>> \in
        {p \in (1..Len(str)) \X (1..Len(str)) :
            /\ p[1] <= p[2]
            /\ \A k \in p[1]..p[2] : str[k] /= "/"
            /\ (p[1] = 1 \/ str[p[1] - 1] = "/")
            /\ (p[2] = Len(str) \/ str[p[2] + 1] = "/")}}

\* The host and path segments of the default base (all but the scheme).
DefaultBaseSegments ==
    Segments(DEFAULT_BASE_URL) \ {<<"h", "t", "t", "p", "s", ":">>}

\* getImage's url has exactly one '/' between the base (without its trailing
\* '/') and a plain identifier, given with or without a leading '/'.
OneSeparator ==
    PlainId(DropLeadingSlash(request.src))
        => response.result.url =
              DropTrailingSlash(request.options.baseURL.s) \o <<"/">>
                  \o DropLeadingSlash(request.src)

\* C12 as stated: getImage's url has exactly one separator between base and
\* identifier for every combination of base with or without a trailing '/' and
\* identifier with or without a leading '/', and holds no segment of the
\* default base when an override is supplied.
C12_OneSeparatorNoDefaultWhenSupplied ==
    response.op = "getImage" =>
        /\ OverrideNonEmpty => OneSeparator
        /\ OverrideSupplied => Segments(response.result.url) \cap DefaultBaseSegments = {}

\* C12 as amended: the same, for every supplied override that is not empty
\* and every identifier that, after at most one leading '/', is not empty and
\* starts neither with '/' nor with './'.
C12_OneSeparatorNoDefaultWhenNonEmpty ==
    response.op = "getImage" =>
        /\ OverrideNonEmpty => OneSeparator
        /\ OverrideNonEmpty => Segments(response.result.url) \cap DefaultBaseSegments = {}

\* getImage has joined a base without a trailing '/' and an identifier with a
\* leading '/'.
C12_Witness ==
    /\ response.op = "getImage"
    /\ OverrideNonEmpty
    /\ request.options.baseURL.s = <<"b">>
    /\ request.src = <<"/", "a">>
    /\ response.result.url = <<"b", "/", "a">>

(***************************************************************************)
(* Properties of the error registry.                                       *)
(***************************************************************************)
\* The errors module has been evaluated to its end.
ErrorsLoaded == errPc = Len(exportOrder)

\* The object bound to an export name has this status code and message.
Holds(name, code, message) ==
    /\ name \in DOMAIN exports
    /\ heap[exports[name]].statusCode = code
    /\ heap[exports[name]].statusMessage = message

\* C4: the registry exposes exactly seven named values, with the pairs
\* ErrNotFound (404, 'Not found'), ErrForbidden (403, 'Forbidden'),
\* ErrUnauthorized (401, 'Unauthorized'), ErrBadRequest (400, 'Bad request'),
\* ErrUnsupportedMethod (405, 'Unsupported method'), ErrInternalServer
\* (500, 'Internal server error'), ErrNoParamId (400, 'No param id').
C4_RegistryPairs ==
    ErrorsLoaded =>
        /\ DOMAIN exports =
              {"ErrNotFound", "ErrForbidden", "ErrUnauthorized", "ErrBadRequest",
               "ErrUnsupportedMethod", "ErrInternalServer", "ErrNoParamId"}
        /\ Holds("ErrNotFound", 404, "Not found")
        /\ Holds("ErrForbidden", 403, "Forbidden")
        /\ Holds("ErrUnauthorized", 401, "Unauthorized")
        /\ Holds("ErrBadRequest", 400, "Bad request")
        /\ Holds("ErrUnsupportedMethod", 405, "Unsupported method")
        /\ Holds("ErrInternalServer", 500, "Internal server error")
        /\ Holds("ErrNoParamId", 400, "No param id")

\* The not-found error has been raised and the boundary has read 404 and
\* 'Not found' from it.
C4_Witness ==
    /\ ErrorsLoaded
    /\ response.op = "raise"
    /\ response.name = "ErrNotFound"
    /\ response.statusCode = 404
    /\ response.statusMessage = "Not found"

\* C5: in every state after process start, through any sequence of reads and
\* raises, each error value still holds the (statusCode, statusMessage) pair
\* it was constructed with: no step changes the pair of a bound name.
C5_ErrorsNeverMutated ==
    [][\A name \in DOMAIN exports :
          /\ name \in DOMAIN exports'
          /\ heap'[exports'[name]].statusCode = heap[exports[name]].statusCode
          /\ heap'[exports'[name]].statusMessage = heap[exports[name]].statusMessage]_vars

\* Every error is constructed and one of the two that share status code 400
\* has been raised.
C5_Witness ==
    /\ ErrorsLoaded
    /\ response.op = "raise"
    /\ response.name = "ErrBadRequest"
    /\ Holds("ErrBadRequest", 400, "Bad request")

(***************************************************************************)
(* Properties of the content schema.                                       *)
(***************************************************************************)
IsText(v) == v.t = "string"

IsTextSequence(v) == v.t = "array" /\ \A i \in 1..Len(v.a) : IsText(v.a[i])

\* The shape the schema declares for a key is met by the value.
RightShape(key, v) == IF key = "tags" THEN IsTextSequence(v) ELSE IsText(v)

DeclaredKeys == {"title", "description", "image", "tags"}

OptionalKeys == {"description", "image", "tags"}

\* Every optional field the document has is of the declared shape.
OptionalsWellShaped(doc) ==
    \A key \in OptionalKeys : key \in DOMAIN doc => RightShape(key, doc[key])

\* Some issue of a failed validation names the field.
Names(result, key) ==
    \E i \in 1..Len(result.issues) : result.issues[i].path[1] = key

\* C6: for every document whose title is text and every combination of
\* present and absent optional fields of the right shape, validation succeeds
\* and returns a record in which each absent field is absent and each present
\* field keeps its value; { title: 'Hello' } yields just title 'Hello'.
C6_ValidDocumentAccepted ==
    (/\ response.op = "validate"
     /\ "title" \in DOMAIN request.doc
     /\ IsText(request.doc.title)
     /\ OptionalsWellShaped(request.doc))
    => /\ response.result.success
       /\ \A key \in DeclaredKeys :
             IF key \in DOMAIN request.doc
             THEN /\ key \in DOMAIN response.result.data
                  /\ response.result.data[key] = request.doc[key]
             ELSE key \notin DOMAIN response.result.data
       /\ request.doc = [title |-> Str(Hello)]
             => response.result = [success |-> TRUE, data |-> [title |-> Str(Hello)]]

\* { title: 'Hello' } has been validated.
C6_Witness ==
    /\ response.op = "validate"
    /\ request.doc = [title |-> Str(Hello)]
    /\ response.result.success
    /\ DOMAIN response.result.data = {"title"}

\* C7: for every document without a title field, whatever else it carries,
\* validation fails with an error that names title and returns no record.
C7_MissingTitleRejected ==
    (response.op = "validate" /\ "title" \notin DOMAIN request.doc)
    => /\ ~response.result.success
       /\ "data" \notin DOMAIN response.result
       /\ \E i \in 1..Len(response.result.issues) :
             response.result.issues[i].path = <<"title">>

\* { description: 'x' } has been validated and refused.
C7_Witness ==
    /\ response.op = "validate"
    /\ request.doc = [description |-> Str(<<"x">>)]
    /\ ~response.result.success

\* C8 as stated: every accepted document has a title that is present and
\* non-empty; a document whose title is the empty string is rejected.
C8_AcceptedTitleNonEmpty ==
    (response.op = "validate" /\ response.result.success)
    => /\ "title" \in DOMAIN response.result.data
       /\ IsText(response.result.data.title)
       /\ response.result.data.title.s /= <<>>

\* C8 as amended: every accepted document has a title that is present and is
\* text; the text may be empty, and a document whose title is the empty
\* string is accepted when its other fields are of the right shape.
C8_AcceptedTitleIsText ==
    response.op = "validate" =>
        /\ response.result.success
              => /\ "title" \in DOMAIN response.result.data
                 /\ IsText(response.result.data.title)
        /\ (/\ "title" \in DOMAIN request.doc
            /\ request.doc.title = Str(<<>>)
            /\ OptionalsWellShaped(request.doc))
              => /\ response.result.success
                 /\ response.result.data.title = Str(<<>>)

\* A document whose title is the empty string has been accepted.
C8_Witness ==
    /\ response.op = "validate"
    /\ "title" \in DOMAIN request.doc
    /\ request.doc.title = Str(<<>>)
    /\ response.result.success

\* C9: for every document in which a present field has the wrong shape
\* (title, description or image not text; tags not a sequence, or a sequence
\* with a non-text element), validation fails with an error naming that
\* field, even when title itself is valid.
C9_WrongShapeNamed ==
    response.op = "validate" =>
        \A key \in DeclaredKeys :
            (key \in DOMAIN request.doc /\ ~RightShape(key, request.doc[key]))
            => /\ ~response.result.success
               /\ Names(response.result, key)

\* A document with a valid title whose tags hold a non-text element after a
\* text one has been refused.
C9_Witness ==
    /\ response.op = "validate"
    /\ "title" \in DOMAIN request.doc
    /\ IsText(request.doc.title)
    /\ "tags" \in DOMAIN request.doc
    /\ request.doc.tags = Arr(<<Str(<<"x">>), Num(1)>>)
    /\ ~response.result.success
    /\ Names(response.result, "tags")
    /\ ~Names(response.result, "title")

(***************************************************************************)
(* Properties of the component registration plugin.                        *)
(***************************************************************************)
\* C10: after the plugin has run, the application's global component registry
\* maps 'NuxtLink' to the navigation-link component and 'NuxtImg' to the
\* image-rendering component.
C10_ComponentsRegistered ==
    pluginDone =>
        /\ "NuxtLink" \in DOMAIN components
        /\ components["NuxtLink"] = "#components/NuxtLink"
        /\ "NuxtImg" \in DOMAIN components
        /\ components["NuxtImg"] = "#components/NuxtImg"

\* The plugin has run on an application that had another component
\* registered before.
C10_Witness ==
    /\ pluginDone
    /\ "ContentRenderer" \in DOMAIN components
    /\ "NuxtImg" \in DOMAIN components

(***************************************************************************)
(* Properties of the framework configuration.                              *)
(***************************************************************************)
\* The locale entries of the loaded i18n configuration, as a set.
I18nLocales ==
    {nuxtConfig.config.i18n.locales[i] : i \in DOMAIN nuxtConfig.config.i18n.locales}

I18nCodes == {l.code : l \in I18nLocales}

ContentLocales ==
    {nuxtConfig.config.content.locales[i] :
        i \in DOMAIN nuxtConfig.config.content.locales}

\* C13: the i18n configuration ships exactly the locales 'en' and 'ru', each
\* with its translation file (en.yml, ru.yml); the default locale is 'ru' and
\* is one of the configured codes; every content locale of the content
\* configuration is an i18n locale code.
C13_LocalesConsistent ==
    nuxtConfig.loaded =>
        /\ Len(nuxtConfig.config.i18n.locales) = 2
        /\ I18nCodes = {"en", "ru"}
        /\ \A l \in I18nLocales :
              /\ l.code = "en" => l.file = "en.yml"
              /\ l.code = "ru" => l.file = "ru.yml"
        /\ nuxtConfig.config.i18n.defaultLocale = "ru"
        /\ nuxtConfig.config.i18n.defaultLocale \in I18nCodes
        /\ ContentLocales \subseteq I18nCodes

\* The configuration is loaded and lists both content locales.
C13_Witness ==
    /\ nuxtConfig.loaded
    /\ ContentLocales = {"ru", "en"}
    /\ Len(nuxtConfig.config.i18n.locales) = 2

(***************************************************************************)
(* Properties of raising the named errors from handlers.                   *)
(***************************************************************************)
\* The handlers that hold a raised error.
Raising == {h \in Handlers : handlers[h].pc /= "idle"}

\* C14: each named error is constructed exactly once, at module
\* initialization: there is one object per evaluated export statement, the
\* names are bound to distinct objects, every raise of a name holds the
\* object the module bound to that name (so two raises of one name hold the
\* same instance), and once the module is loaded no step constructs an
\* object or rebinds a name.
C14_ConstructedOnceAndShared ==
    /\ [](/\ Len(heap) = errPc
          /\ Cardinality(DOMAIN exports) = errPc
          /\ \A n1, n2 \in DOMAIN exports : exports[n1] = exports[n2] => n1 = n2
          /\ \A h \in Raising : handlers[h].thrown = exports[handlers[h].name]
          /\ \A h1, h2 \in Raising :
                handlers[h1].name = handlers[h2].name
                    => handlers[h1].thrown = handlers[h2].thrown)
    /\ [][ErrorsLoaded => heap' = heap /\ exports' = exports /\ ErrorsLoaded']_vars

\* Two handlers hold a raise of the same named error at the same time, one
\* of them already delivered.
C14_Witness ==
    /\ ErrorsLoaded
    /\ handlers[1].pc = "delivered"
    /\ handlers[2].pc = "thrown"
    /\ handlers[1].name = "ErrBadRequest"
    /\ handlers[2].name = "ErrBadRequest"
    /\ handlers[1].thrown = handlers[2].thrown

\* The pair the registry documents for a name.
RegistryPair(name) ==
    CASE name = "ErrNotFound" -> <<404, "Not found">>
      [] name = "ErrForbidden" -> <<403, "Forbidden">>
      [] name = "ErrUnauthorized" -> <<401, "Unauthorized">>
      [] name = "ErrBadRequest" -> <<400, "Bad request">>
      [] name = "ErrUnsupportedMethod" -> <<405, "Unsupported method">>
      [] name = "ErrInternalServer" -> <<500, "Internal server error">>
      [] name = "ErrNoParamId" -> <<400, "No param id">>

\* C15: under any interleaving of handlers that raise named errors, what
\* reaches the HTTP boundary for a raise is the registry's pair for the name
\* raised; a raise is followed by its delivery only (no retry, recovery or
\* fallback), with the name and the object it threw; and a step of one
\* handler leaves what the others hold as it was.
C15_DeliveredPairUnderInterleaving ==
    /\ [](\A h \in Handlers :
            handlers[h].pc = "delivered" =>
                <<handlers[h].statusCode, handlers[h].statusMessage>>
                    = RegistryPair(handlers[h].name))
    /\ [][\A h \in Handlers :
            /\ (handlers[h].pc = "thrown" /\ handlers'[h] /= handlers[h]) =>
                  /\ handlers'[h].pc = "delivered"
                  /\ handlers'[h].name = handlers[h].name
                  /\ handlers'[h].thrown = handlers[h].thrown
            /\ handlers'[h] /= handlers[h] =>
                  \A g \in Handlers \ {h} : handlers'[g] = handlers[g]]_vars

\* Two handlers have raised the two different errors that share status code
\* 400 and both have been delivered, each with its own message.
C15_Witness ==
    /\ handlers[1].pc = "delivered"
    /\ handlers[2].pc = "delivered"
    /\ handlers[1].name = "ErrBadRequest"
    /\ handlers[2].name = "ErrNoParamId"
    /\ handlers[1].statusMessage = "Bad request"
    /\ handlers[2].statusMessage = "No param id"

\* C20: running the plugin more than once on the same application leaves the
\* registry as one run leaves it: 'NuxtLink' and 'NuxtImg' are each bound to
\* their one component after every run, and a run after the first changes
\* nothing in the registry (no entry added, removed or rebound).
C20_RerunLeavesRegistry ==
    /\ [](pluginRuns >= 1 =>
            /\ {"NuxtLink", "NuxtImg"} \subseteq DOMAIN components
            /\ components["NuxtLink"] = NuxtLink
            /\ components["NuxtImg"] = NuxtImg
            /\ components = registerComponents(components))
    /\ [][pluginRuns >= 1 => components' = components]_vars

\* The plugin has run three times on an application that had registered a
\* component of its own before.
C20_Witness ==
    /\ pluginRuns = 3
    /\ "ContentRenderer" \in DOMAIN components
    /\ components["NuxtLink"] = NuxtLink

(***************************************************************************)
(* Further properties of the registry, the schema and the configuration.   *)
(***************************************************************************)
PairOf(name) ==
    <<heap[exports[name]].statusCode, heap[exports[name]].statusMessage>>

\* C24: the seven (statusCode, statusMessage) pairs are pairwise distinct
\* and so are the seven messages, while the status codes are not:
\* ErrBadRequest and ErrNoParamId both carry 400, so the status code alone
\* does not identify a named error.
C24_MessagesDistinctCodesNot ==
    ErrorsLoaded =>
        /\ Cardinality(DOMAIN exports) = 7
        /\ \A n1, n2 \in DOMAIN exports :
              n1 /= n2 =>
                  /\ PairOf(n1) /= PairOf(n2)
                  /\ PairOf(n1)[2] /= PairOf(n2)[2]
        /\ PairOf("ErrBadRequest")[1] = 400
        /\ PairOf("ErrNoParamId")[1] = 400
        /\ Cardinality({PairOf(n)[1] : n \in DOMAIN exports}) = 6

\* ErrNoParamId has been raised and delivered with the status code that
\* ErrBadRequest carries too.
C24_Witness ==
    /\ ErrorsLoaded
    /\ response.op = "raise"
    /\ response.name = "ErrNoParamId"
    /\ response.statusCode = PairOf("ErrBadRequest")[1]
    /\ response.statusMessage = "No param id"

\* C25: validation is idempotent: for every document validation accepts,
\* validating the returned record again succeeds and returns an equal record.
C25_RevalidationIsIdentity ==
    response.op = "revalidate" =>
        /\ response.result.success
        /\ response.result.data = response.first.data
        /\ response.result = response.first

\* A document with all four declared fields and an undeclared one has been
\* validated, and the record returned has been validated again.
C25_Witness ==
    /\ response.op = "revalidate"
    /\ DOMAIN request.doc = DeclaredKeys \cup {"slug"}
    /\ DOMAIN response.first.data = DeclaredKeys
    /\ Len(response.first.data.tags.a) = 2

\* The document without the keys the schema does not declare.
DeclaredPart(doc) == [k \in DOMAIN doc \cap DeclaredKeys |-> doc[k]]

\* C26: the record the schema returns has no keys other than title,
\* description, image and tags: a key of the document that the schema does
\* not declare never makes validation fail (the outcome is that of the
\* document without it, and no issue names it) and never appears in the
\* result.
C26_UndeclaredKeysStripped ==
    response.op = "validate" =>
        /\ response.result.success => DOMAIN response.result.data \subseteq DeclaredKeys
        /\ response.result = schema(DeclaredPart(request.doc))
        /\ ~response.result.success =>
              \A i \in 1..Len(response.result.issues) :
                  response.result.issues[i].path[1] \in DeclaredKeys

\* A document with a title and an undeclared slug has been accepted, and the
\* record has the title only.
C26_Witness ==
    /\ response.op = "validate"
    /\ request.doc = [title |-> Str(Hello), slug |-> Str(<<"x">>)]
    /\ response.result.success
    /\ DOMAIN response.result.data = {"title"}

\* C23: after the configuration is loaded, the custom image providers it
\* configures contain an entry for the image URL adapter, so that it can be
\* selected by name.
C23_ProviderConfigured ==
    nuxtConfig.loaded => DOMAIN nuxtConfig.config.image.providers /= {}

(***************************************************************************)
(* Properties of the pure operations under concurrent invocation.          *)
(***************************************************************************)
\* What an invocation returns when nothing else runs.
Alone(input) ==
    CASE input.kind = "validate" -> schema(input.doc)
      [] input.kind = "getImage" -> getImage(input.src, input.options)
      [] input.kind = "providerGetImage" -> providerGetImage(input.src, input.options)

\* C21: under any interleaving of concurrent invocations of schema
\* validation and image URL resolution, each invocation returns what it
\* returns when run alone, and no step of an invocation changes the state
\* the application shares, its own input, or another invocation.
C21_InterleavingIsInvisible ==
    /\ [](\A c \in Calls :
            calls[c].pc = "done" => calls[c].result = Alone(calls[c].input))
    /\ [][\A c \in Calls :
            /\ calls[c].pc /= "idle" => calls'[c].input = calls[c].input
            /\ calls'[c] /= calls[c] =>
                  /\ \A d \in Calls \ {c} : calls'[d] = calls[d]
                  /\ UNCHANGED <<components, pluginDone, pluginRuns, heap,
                                 exports, errPc, nuxtConfig, handlers>>]_vars

\* Two invocations of getImage with different overrides were between their
\* two steps at the same time; the first has returned the url of its own
\* override.
C21_Witness ==
    /\ calls[1].pc = "done"
    /\ calls[2].pc = "based"
    /\ calls[1].input.kind = "getImage"
    /\ calls[1].input.options = [baseURL |-> Str(cdnBase)]
    /\ calls[2].input.options = NoKeys
    /\ calls[2].baseURL = DEFAULT_BASE_URL
    /\ calls[1].result.url = octocatCdnUrl

====
